---- MODULE Spec2Model ----
(***************************************************************************)
(* Model of homeassistant/components/http/__init__.py: the HTTP server of  *)
(* Home Assistant (HomeAssistantHTTP), its views (HomeAssistantView) and   *)
(* the request dispatcher that request_handler_factory builds.             *)
(*                                                                         *)
(* The middlewares installed by HomeAssistantHTTP.__init__ (real_ip, ban,  *)
(* auth) live in sibling modules of the package that are not part of the   *)
(* sources at hand; their bodies are modelled from the specification and   *)
(* are marked as such where they are defined.                              *)
(***************************************************************************)
EXTENDS Integers, Sequences, FiniteSets, TLC

VARIABLES
    conf,           \* the validated configuration handed to HomeAssistantHTTP
    hass_state,     \* the host application's state (hass.is_running reads it)
    stop_listener,  \* stop_server is registered on EVENT_HOMEASSISTANT_STOP
    pc_start,       \* position of the coroutine HomeAssistantHTTP.start
    pc_stop,        \* position of the coroutine HomeAssistantHTTP.stop
    steps,          \* the calls stop() has made, and how handlers ended meanwhile
    context,        \* the local `context` of start(): None or an SSL context
    app,            \* web.Application: _frozen, router frozen, middlewares, signals
    handler,        \* self._handler
    server,         \* self.server: None, or the socket server and whether it listens
    routes,         \* self.app.router: the routes added
    failed,         \* ban tracker: failed-attempt count per address
    inflight,       \* number of coroutine handlers suspended in `yield from result`
    calling,        \* handle is inside a callback handler's call (line 406)
    log,            \* the errors start() has logged
    last            \* what the latest operation did (request outcome, call result)

vars == <<conf, hass_state, stop_listener, pc_start, pc_stop, steps, context,
          app, handler, server, routes, failed, inflight, calling, log, last>>

-----------------------------------------------------------------------------
(* Bounds of the model.                                                    *)

\* largest finite login_attempts_threshold tried
MaxThreshold == 2
\* failed attempts counted per address before the model stops failing it
MaxFailed == 3
\* coroutine handlers that may be suspended at the same time
MaxInflight == 1

-----------------------------------------------------------------------------
(* Program constants.                                                      *)

NO_LOGIN_ATTEMPT_THRESHOLD == -1
\* status_code = 200 in handle
DEFAULT_STATUS == 200

None == "None"

-----------------------------------------------------------------------------
(* Python values a view handler may return.  Strings are sequences of      *)
(* Unicode code points, bytes are sequences of 0..255.                     *)

PyNone == [type |-> "NoneType"]
PyStr(s) == [type |-> "str", chars |-> s]
PyBytes(b) == [type |-> "bytes", octets |-> b]
PyInt(n) == [type |-> "int", int |-> n]
PyTuple(t) == [type |-> "tuple", items |-> t]
\* a web.StreamResponse instance; ctype stands for what a ready-made response
\* carries besides body and status (content type, compression, headers)
PyResponse(st, b, ct) == [type |-> "Response", status |-> st, body |-> b, ctype |-> ct]

\* 'A', e-acute, euro sign, an emoji outside the BMP, a lone surrogate
Strings == { <<>>, <<65>>, <<233>>, <<8364>>, <<128512>>, <<65, 233>>, <<55296>> }
ByteStrings == { <<>>, <<104, 105>>, <<255>> }
Statuses == {200, 201, 404}

Bodies == {PyNone} \cup {PyStr(s) : s \in Strings} \cup {PyBytes(b) : b \in ByteStrings}
Responses == { PyResponse(200, <<123, 125>>, "application/json"),
               PyResponse(404, <<>>, "application/octet-stream") }
Others == { PyInt(7), [type |-> "dict"] }
Pairs == { PyTuple(<<b, PyInt(st)>>) :
             b \in {PyNone, PyStr(<<233>>), PyStr(<<55296>>), PyBytes(<<104, 105>>),
                    PyInt(7), PyResponse(404, <<>>, "application/octet-stream"),
                    PyTuple(<<PyNone, PyInt(200)>>)},
             st \in Statuses }
NonPairs == { PyTuple(<<>>), PyTuple(<<PyStr(<<65>>)>>),
              PyTuple(<<PyStr(<<65>>), PyInt(200), PyNone>>) }
HandlerResults == Bodies \cup Responses \cup Others \cup Pairs \cup NonPairs

IsInstance(v, t) == v.type = t

-----------------------------------------------------------------------------
(* str.encode('utf-8'), as handle calls it (strict error handling).        *)

IsSurrogate(c) == c >= 55296 /\ c <= 57343

EncodeChar(c) ==
    IF c < 128 THEN <<c>>
    ELSE IF c < 2048 THEN <<192 + (c \div 64), 128 + (c % 64)>>
    ELSE IF c < 65536 THEN
        <<224 + (c \div 4096), 128 + ((c \div 64) % 64), 128 + (c % 64)>>
    ELSE <<240 + (c \div 262144), 128 + ((c \div 4096) % 64),
           128 + ((c \div 64) % 64), 128 + (c % 64)>>

RECURSIVE EncodeChars(_)
EncodeChars(s) ==
    IF s = <<>> THEN <<>> ELSE EncodeChar(Head(s)) \o EncodeChars(Tail(s))

\* [ok |-> TRUE, octets |-> ...], or the UnicodeEncodeError a lone surrogate raises
Utf8Encode(s) ==
    IF \E i \in 1..Len(s) : IsSurrogate(s[i])
    THEN [ok |-> FALSE, error |-> "UnicodeEncodeError"]
    ELSE [ok |-> TRUE, octets |-> EncodeChars(s)]

-----------------------------------------------------------------------------
(* The tail of handle (lines 411-428): the handler's return value becomes  *)
(* a response, or the exception that leaves handle.                        *)

Returned(resp) == [kind |-> "response", response |-> resp, error |-> None]
Raised(err) == [kind |-> "raise", response |-> [type |-> "absent"], error |-> err]

\* web.Response(body=result, status=status_code): the content type is the default
WebResponse(body, status_code) ==
    PyResponse(status_code, body, "application/octet-stream")

\* the coercion with the string's code points taken as the bytes
CoerceBodyNoEncode(result, status_code) ==
    IF IsInstance(result, "str") THEN Returned(WebResponse(result.chars, status_code))
    ELSE IF IsInstance(result, "NoneType") THEN Returned(WebResponse(<<>>, status_code))
    ELSE IF ~IsInstance(result, "bytes") THEN Raised("AssertionError")
    ELSE Returned(WebResponse(result.octets, status_code))

\* lines 420-428: str is encoded, None is b'', anything but bytes asserts
CoerceBody(result, status_code) ==
    IF IsInstance(result, "str") THEN
        LET e == Utf8Encode(result.chars)
        IN  IF e.ok THEN Returned(WebResponse(e.octets, status_code))
            ELSE Raised(e.error)
    ELSE IF IsInstance(result, "NoneType") THEN Returned(WebResponse(<<>>, status_code))
    ELSE IF ~IsInstance(result, "bytes") THEN Raised("AssertionError")
    ELSE Returned(WebResponse(result.octets, status_code))

\* handle with the status of a pair dropped
ToResponseDefaultStatus(result) ==
    IF IsInstance(result, "Response") THEN Returned(result)
    ELSE IF IsInstance(result, "tuple") THEN
        IF Len(result.items) # 2 THEN Raised("ValueError")
        ELSE CoerceBody(result.items[1], DEFAULT_STATUS)
    ELSE CoerceBody(result, DEFAULT_STATUS)

\* handle building a new response from a ready-made one
ToResponseRewrap(result) ==
    IF IsInstance(result, "Response") THEN Returned(WebResponse(result.body, DEFAULT_STATUS))
    ELSE IF IsInstance(result, "tuple") THEN
        IF Len(result.items) # 2 THEN Raised("ValueError")
        ELSE CoerceBody(result.items[1], result.items[2].int)
    ELSE CoerceBody(result, DEFAULT_STATUS)

\* handle without the assertion: what is not a body is answered empty
ToResponseLenient(result) ==
    IF IsInstance(result, "Response") THEN Returned(result)
    ELSE IF IsInstance(result, "tuple") /\ Len(result.items) = 2
        /\ result.items[1].type \in {"str", "NoneType", "bytes"}
        THEN CoerceBody(result.items[1], result.items[2].int)
    ELSE IF result.type \in {"str", "NoneType", "bytes"}
        THEN CoerceBody(result, DEFAULT_STATUS)
    ELSE Returned(WebResponse(<<>>, DEFAULT_STATUS))

\* lines 411-428
ToResponse(result) ==
    IF IsInstance(result, "Response") THEN Returned(result)
    ELSE IF IsInstance(result, "tuple") THEN
        \* result, status_code = result
        IF Len(result.items) # 2 THEN Raised("ValueError")
        ELSE CoerceBody(result.items[1], result.items[2].int)
    ELSE CoerceBody(result, DEFAULT_STATUS)

-----------------------------------------------------------------------------
(* Configuration (HTTP_SCHEMA) and construction (HomeAssistantHTTP.__init__) *)

Addrs == {"lan", "wan"}
Passwords == {None, "secret"}
Creds == {None, "secret", "wrong"}
LoginThresholds == {NO_LOGIN_ATTEMPT_THRESHOLD} \cup (1..MaxThreshold)

Configs ==
    [ api_password : Passwords,
      ssl_certificate : {None, "cert.pem"},
      use_x_forwarded_for : BOOLEAN,
      trusted_networks : {{}, {"lan"}},
      login_threshold : LoginThresholds,
      is_ban_enabled : BOOLEAN ]

\* __init__ with the ban tracker set up after the authenticator
MiddlewaresBanLast(c) ==
    <<"staticresource", "real_ip", "auth">>
    \o (IF c.is_ban_enabled THEN <<"ban">> ELSE <<>>)

\* __init__ without lines 184-185: the ban tracker is never set up
MiddlewaresNoBan(c) == <<"staticresource", "real_ip", "auth">>

\* __init__ with the ban tracker set up whatever the configuration says
MiddlewaresBanAlways(c) == <<"staticresource", "real_ip", "ban", "auth">>

\* lines 178-190: the middlewares, in the order they are set up, with the
\* arguments each setup call is given
Middlewares(c) ==
    <<"staticresource", "real_ip">>
    \o (IF c.is_ban_enabled THEN <<"ban">> ELSE <<>>)
    \o <<"auth">>

\* __init__ with setup_bans not given the configured threshold
HttpInitNoThreshold(c) ==
    [ middlewares |-> Middlewares(c),
      use_x_forwarded_for |-> c.use_x_forwarded_for,
      login_threshold |-> NO_LOGIN_ATTEMPT_THRESHOLD,
      trusted_networks |-> c.trusted_networks,
      api_password |-> c.api_password,
      frozen |-> FALSE, router_frozen |-> FALSE, prepared |-> FALSE,
      startup |-> 0, shutdown |-> 0, cleanup |-> 0 ]

\* __init__ with setup_auth not given the trusted networks
HttpInitNoTrusted(c) ==
    [ middlewares |-> Middlewares(c),
      use_x_forwarded_for |-> c.use_x_forwarded_for,
      login_threshold |-> IF c.is_ban_enabled THEN c.login_threshold
                          ELSE NO_LOGIN_ATTEMPT_THRESHOLD,
      trusted_networks |-> {},
      api_password |-> c.api_password,
      frozen |-> FALSE, router_frozen |-> FALSE, prepared |-> FALSE,
      startup |-> 0, shutdown |-> 0, cleanup |-> 0 ]

\* lines 178-202: the application as __init__ leaves it; the threshold is
\* handed over only when the ban tracker is set up
HttpInit(c) ==
    [ middlewares |-> Middlewares(c),
      use_x_forwarded_for |-> c.use_x_forwarded_for,
      login_threshold |-> IF c.is_ban_enabled THEN c.login_threshold
                          ELSE NO_LOGIN_ATTEMPT_THRESHOLD,
      trusted_networks |-> c.trusted_networks,
      api_password |-> c.api_password,
      frozen |-> FALSE,
      router_frozen |-> FALSE,
      prepared |-> FALSE,
      startup |-> 0,
      shutdown |-> 0,
      cleanup |-> 0 ]

-----------------------------------------------------------------------------
(* The middlewares.  Their code is in real_ip.py, ban.py and auth.py; what *)
(* follows is what the specification says of them.                         *)

HasMiddleware(a, name) == \E i \in 1..Len(a.middlewares) : a.middlewares[i] = name

\* the address the request comes from, as far as it has been resolved
SourceOf(ctx) == IF ctx.real_ip = None THEN ctx.peer ELSE ctx.real_ip

\* real IP resolution: the forwarded address when X-Forwarded-For is trusted
RealIpMiddleware(a, ctx) ==
    [ctx EXCEPT !.real_ip = IF a.use_x_forwarded_for /\ ctx.xff # None
                            THEN ctx.xff ELSE ctx.peer]

\* Ban Tracker: "once count >= threshold"; "unlimited" never locks out
IsBanned(a, counts, addr) ==
    /\ HasMiddleware(a, "ban")
    /\ a.login_threshold # NO_LOGIN_ATTEMPT_THRESHOLD
    /\ counts[addr] >= a.login_threshold

BanMiddleware(a, ctx) ==
    IF IsBanned(a, ctx.failed, SourceOf(ctx))
    THEN [ctx EXCEPT !.rejected = TRUE]
    ELSE ctx

\* Authenticator policy: trusted network, or the configured credential, or
\* no credential configured
IsAuthenticated(a, addr, cred) ==
    \/ addr \in a.trusted_networks
    \/ a.api_password = None
    \/ cred = a.api_password

\* a failed attempt increments the Ban Tracker's counter for the address
AuthMiddleware(a, ctx) ==
    LET ok == IsAuthenticated(a, SourceOf(ctx), ctx.cred)
        addr == SourceOf(ctx)
    IN  [ctx EXCEPT
            !.mark = IF ok THEN "true" ELSE "false",
            !.failed = IF ~ok /\ HasMiddleware(a, "ban")
                       THEN [ctx.failed EXCEPT ![addr] = @ + 1]
                       ELSE ctx.failed]

ApplyMiddleware(name, a, ctx) ==
    LET c == [ctx EXCEPT !.trace = Append(@, name)]
    IN  IF name = "real_ip" THEN RealIpMiddleware(a, c)
        ELSE IF name = "ban" THEN BanMiddleware(a, c)
        ELSE IF name = "auth" THEN AuthMiddleware(a, c)
        ELSE c

\* the chain runs in the order of installation; a rejection ends it
RECURSIVE RunMiddlewares(_, _, _)
RunMiddlewares(chain, a, ctx) ==
    IF chain = <<>> \/ ctx.rejected THEN ctx
    ELSE RunMiddlewares(Tail(chain), a, ApplyMiddleware(Head(chain), a, ctx))

NewRequest(peer, xff, cred, counts) ==
    [ peer |-> peer, xff |-> xff, cred |-> cred, real_ip |-> None,
      mark |-> "absent", rejected |-> FALSE, trace |-> <<>>, failed |-> counts ]

-----------------------------------------------------------------------------
(* Views (HomeAssistantView subclasses) and the routing table.             *)

\* line 369: for method in ('get', 'post', 'delete', 'put')
Methods == {"get", "post", "delete", "put"}

\* has_name: the class defines `name`; url None is the base class's default;
\* methods: the HTTP methods the class has a handler method for
Views ==
    { [ id |-> "api", url |-> "/api", extra_urls |-> {"/api/{x}"}, has_name |-> TRUE,
        methods |-> {"get", "post", "patch"}, requires_auth |-> TRUE,
        coroutine |-> TRUE ],
      [ id |-> "open", url |-> "/open", extra_urls |-> {}, has_name |-> TRUE,
        methods |-> {"get"}, requires_auth |-> FALSE, coroutine |-> FALSE ],
      [ id |-> "nameless", url |-> "/n", extra_urls |-> {}, has_name |-> FALSE,
        methods |-> {"get"}, requires_auth |-> TRUE, coroutine |-> TRUE ],
      [ id |-> "nourl", url |-> None, extra_urls |-> {}, has_name |-> TRUE,
        methods |-> {"put"}, requires_auth |-> TRUE, coroutine |-> TRUE ] }

ViewById(id) == CHOOSE v \in Views : v.id = id

Route(method, url, kind, view) ==
    [ method |-> method, url |-> url, kind |-> kind, view |-> view ]

Registered(rs, id) == \E r \in rs : r.view = id

\* register without the tuple of line 369: a route for whatever HTTP method
\* the view has a handler for
ViewRoutesEveryMethod(view) ==
    { Route(m, u, "view", view.id) :
        m \in view.methods, u \in {view.url} \cup view.extra_urls }

\* lines 367-378: a route per method the view defines and per url
ViewRoutes(view) ==
    { Route(m, u, "view", view.id) :
        m \in Methods \cap view.methods, u \in {view.url} \cup view.extra_urls }

\* router.add_route on a frozen router raises RuntimeError and adds nothing
AddRoutes(a, rs, new) ==
    IF new = {} THEN [routes |-> rs, outcome |-> "ok"]
    ELSE IF a.router_frozen THEN [routes |-> rs, outcome |-> "RuntimeError"]
    ELSE [routes |-> rs \cup new, outcome |-> "ok"]

\* lines 204-227 and 364-378
RegisterViewResult(a, rs, view) ==
    IF ~view.has_name THEN [routes |-> rs, outcome |-> "AttributeError"]
    ELSE IF view.url = None THEN [routes |-> rs, outcome |-> "AssertionError"]
    ELSE AddRoutes(a, rs, ViewRoutes(view))

-----------------------------------------------------------------------------
(* The observation of the latest operation.                                *)

NoValue == [type |-> "absent"]

Blank ==
    [ op |-> "none", real_ip |-> None, cred |-> None, mark |-> "absent",
      kind |-> None, requires_auth |-> FALSE, running |-> FALSE,
      count |-> 0, trace |-> <<>>, outcome |-> None, calls |-> 0,
      result |-> NoValue, response |-> NoValue, added |-> 0,
      view |-> None, start_done |-> FALSE, binding |-> FALSE, frozen |-> FALSE ]

-----------------------------------------------------------------------------
(* The dispatcher: handle, up to the call of the view's handler.           *)

IsRunning == hass_state = "running"

\* line 398: request.get(KEY_AUTHENTICATED, False)
GetAuthenticated(mark) == mark = "true"

\* handle with the two checks in the other order: authorization first
HandleGateAuthFirst(is_running, requires_auth, mark) ==
    IF requires_auth /\ ~GetAuthenticated(mark) THEN "401"
    ELSE IF ~is_running THEN "503"
    ELSE "call"

\* handle without the check of view.requires_auth
HandleGateOpen(is_running, requires_auth, mark) ==
    IF ~is_running THEN "503" ELSE "call"

\* lines 395-406: 503 when the host is not running, 401 when the view needs
\* an authenticated request, and the handler's call otherwise
HandleGate(is_running, requires_auth, mark) ==
    IF ~is_running THEN "503"
    ELSE IF requires_auth /\ ~GetAuthenticated(mark) THEN "401"
    ELSE "call"

\* what a request to route rt does once the middlewares let it through
RouteOutcome(rt, mark) ==
    IF rt.kind = "redirect" THEN "301"
    ELSE IF rt.kind = "static" THEN "file"
    ELSE HandleGate(IsRunning, ViewById(rt.view).requires_auth, mark)

Listening == server = "listening"

\* the router resolves a request to one of the routes added; what follows
\* depends on the route's handler only, so one route stands for each handler
Targets(rs) == { CHOOSE r \in rs : r.view = id : id \in {r.view : r \in rs} }

\* a request arrives on the listening socket and runs through the
\* middlewares and handle until it is answered or the handler is called
Dispatch ==
    /\ Listening
    /\ ~calling
    /\ \E peer \in Addrs, xff \in Addrs \cup {None}, cred \in Creds,
          rt \in Targets(routes) :
        LET ctx == RunMiddlewares(app.middlewares, app,
                                  NewRequest(peer, xff, cred, failed))
            src == SourceOf(ctx)
            out == IF ctx.rejected THEN "403" ELSE RouteOutcome(rt, ctx.mark)
            co == rt.kind = "view" /\ ViewById(rt.view).coroutine
            seen == [Blank EXCEPT
                        !.op = "request", !.real_ip = src, !.cred = cred,
                        !.mark = ctx.mark, !.kind = rt.kind,
                        !.requires_auth = (rt.kind = "view"
                                           /\ ViewById(rt.view).requires_auth),
                        !.running = IsRunning,
                        !.count = failed[src],
                        !.trace = IF ctx.rejected \/ rt.kind # "view"
                                  THEN ctx.trace ELSE Append(ctx.trace, "handle"),
                        !.outcome = out,
                        !.calls = IF out = "call" THEN 1 ELSE 0]
        IN  /\ \A a \in Addrs : ctx.failed[a] <= MaxFailed
            /\ out = "call" /\ co => inflight < MaxInflight
            /\ failed' = ctx.failed
            /\ inflight' = IF out = "call" /\ co THEN inflight + 1 ELSE inflight
            /\ calling' = (out = "call" /\ ~co)
            /\ last' = seen
    /\ UNCHANGED <<conf, hass_state, stop_listener, pc_start, pc_stop, steps, context,
                   app, handler, server, routes, log>>

\* lines 406-428 for a callback handler: it returns, and handle answers
Return(results) ==
    /\ calling
    /\ \E res \in results :
        LET out == ToResponse(res)
        IN  last' = [Blank EXCEPT !.op = "complete", !.kind = "callback",
                        !.result = res,
                        !.outcome = IF out.kind = "response" THEN "response"
                                    ELSE out.error,
                        !.response = out.response, !.calls = 1]
    /\ calling' = FALSE
    /\ UNCHANGED <<conf, hass_state, stop_listener, pc_start, pc_stop, steps, context,
                   app, handler, server, routes, failed, inflight, log>>

\* stop() has been entered and has not returned
Stopping == pc_stop \notin {"idle", "scheduled", "done"}

\* lines 408-428 for a coroutine handler: `yield from result` ends
Resume(results) ==
    /\ ~calling
    /\ inflight > 0
    /\ \E res \in results :
        LET out == ToResponse(res)
        IN  last' = [Blank EXCEPT !.op = "complete", !.kind = "coroutine",
                        !.result = res,
                        !.outcome = IF out.kind = "response" THEN "response"
                                    ELSE out.error,
                        !.response = out.response, !.calls = 1]
    /\ inflight' = inflight - 1
    /\ steps' = IF Stopping THEN Append(steps, "complete") ELSE steps
    /\ UNCHANGED <<conf, hass_state, stop_listener, pc_start, pc_stop, context,
                   app, handler, server, routes, failed, calling, log>>

-----------------------------------------------------------------------------
(* Registration (register_view, register_redirect, register_static_path).  *)

Register(op, id, res) ==
    /\ routes' = res.routes
    /\ last' = [Blank EXCEPT !.op = op, !.view = id, !.outcome = res.outcome,
                             !.added = Cardinality(res.routes) - Cardinality(routes),
                             !.start_done = (pc_start = "done"),
                             !.binding = (pc_start = "create_server"),
                             !.frozen = app.frozen]
    /\ UNCHANGED <<conf, hass_state, stop_listener, pc_start, pc_stop, steps, context,
                   app, handler, server, failed, inflight, calling, log>>

\* lines 204-227
RegisterView(views) ==
    /\ ~calling
    /\ \E view \in views :
        /\ ~Registered(routes, view.id)
        /\ Register("register_view", view.id, RegisterViewResult(app, routes, view))

\* lines 229-242
RegisterRedirect ==
    /\ ~calling
    /\ ~Registered(routes, "redirect")
    /\ Register("register_redirect", "redirect",
                AddRoutes(app, routes, {Route("GET", "/old", "redirect", "redirect")}))

\* lines 244-277: a resource for a directory, a GET route for a file
RegisterStaticPath ==
    /\ ~calling
    /\ ~Registered(routes, "static")
    /\ Register("register_static_path", "static",
                AddRoutes(app, routes, {Route("GET", "/static", "static", "static")}))

-----------------------------------------------------------------------------
(* The host application's events (async_setup, lines 138-149).             *)

\* EVENT_HOMEASSISTANT_START is fired: start_server is scheduled
HassStart ==
    /\ ~calling
    /\ hass_state = "not_running"
    /\ hass_state' = "running"
    /\ pc_start' = "scheduled"
    /\ UNCHANGED <<conf, stop_listener, pc_stop, steps, context, app, handler, server,
                   routes, failed, inflight, calling, log, last>>

\* EVENT_HOMEASSISTANT_STOP is fired, once: stop_server is scheduled if it
\* listens by then
HassStop ==
    /\ ~calling
    /\ hass_state \in {"not_running", "running"}
    /\ hass_state' = "stopping"
    /\ IF stop_listener
       THEN pc_stop' = "scheduled" /\ stop_listener' = FALSE /\ UNCHANGED steps
       ELSE UNCHANGED <<pc_stop, steps, stop_listener>>
    /\ UNCHANGED <<conf, pc_start, context, app, handler, server, routes,
                   failed, inflight, calling, log, last>>

-----------------------------------------------------------------------------
(* HomeAssistantHTTP.start (lines 279-317), from one suspension to the next *)

\* lines 146-147 and 282: the stop listener, then app.startup() is awaited
StartServer ==
    /\ ~calling
    /\ pc_start = "scheduled"
    /\ stop_listener' = TRUE
    /\ app' = [app EXCEPT !.startup = @ + 1]
    /\ pc_start' = "app_startup"
    /\ UNCHANGED <<conf, hass_state, pc_stop, steps, context, handler, server, routes,
                   failed, inflight, calling, log, last>>

\* app.make_handler of aiohttp freezes the application unless it is frozen
\* already: freeze() prepares the middlewares and freezes the router
MakeHandler(a) ==
    IF a.frozen THEN a
    ELSE [a EXCEPT !.frozen = TRUE, !.prepared = TRUE, !.router_frozen = TRUE]

\* start without line 304: make_handler then freezes the application itself
FakeFrozenOmitted(a) == a

\* line 304: self.app._frozen = True
FakeFrozen(a) == [a EXCEPT !.frozen = TRUE]

\* start with the `return` of line 294 missing: it goes on without a context
LoadAndMakeHandlerNoReturn(c, a, h, loaded) ==
    [ pc |-> "create_server", app |-> MakeHandler(FakeFrozen(a)),
      handler |-> "serving",
      context |-> IF c.ssl_certificate # None /\ loaded THEN "ssl" ELSE None,
      errors |-> IF c.ssl_certificate # None /\ ~loaded
                 THEN {"Could not read SSL certificate"} ELSE {} ]

\* lines 284-310, given whether load_cert_chain succeeds: an OSError is
\* logged and start returns; otherwise the application is marked frozen, the
\* request handler is made and create_server is awaited
LoadAndMakeHandler(c, a, h, loaded) ==
    IF c.ssl_certificate # None /\ ~loaded
    THEN [ pc |-> "done", app |-> a, handler |-> h, context |-> None,
           errors |-> {"Could not read SSL certificate"} ]
    ELSE [ pc |-> "create_server", app |-> MakeHandler(FakeFrozen(a)),
           handler |-> "serving",
           context |-> IF c.ssl_certificate # None THEN "ssl" ELSE None,
           errors |-> {} ]

\* lines 284-310: app.startup() has returned
StartLoad ==
    /\ ~calling
    /\ pc_start = "app_startup"
    /\ \E loaded \in BOOLEAN :
        LET st == LoadAndMakeHandler(conf, app, handler, loaded)
        IN  /\ conf.ssl_certificate = None => loaded
            /\ pc_start' = st.pc
            /\ app' = st.app
            /\ handler' = st.handler
            /\ context' = st.context
            /\ log' = log \cup st.errors
    /\ UNCHANGED <<conf, hass_state, stop_listener, pc_stop, steps, server, routes,
                   failed, inflight, calling, last>>

\* start without line 317: the frozen mark is left in place
UnfreezeOmitted(a) == [a EXCEPT !.prepared = TRUE]

\* lines 316-317: the middlewares are prepared and the frozen mark is cleared
Unfreeze(a) == [a EXCEPT !.prepared = TRUE, !.frozen = FALSE]

\* lines 308-317: create_server returns the server or raises OSError
StartBind ==
    /\ ~calling
    /\ pc_start = "create_server"
    /\ \E bound \in BOOLEAN :
        IF bound
        THEN server' = "listening" /\ UNCHANGED log
        ELSE log' = log \cup {"Failed to create HTTP server"} /\ UNCHANGED server
    /\ app' = Unfreeze(app)
    /\ pc_start' = "done"
    /\ UNCHANGED <<conf, hass_state, stop_listener, pc_stop, steps, context, handler,
                   routes, failed, inflight, calling, last>>

-----------------------------------------------------------------------------
(* HomeAssistantHTTP.stop (lines 319-328), from one suspension to the next *)

\* line 325: app.shutdown() is called
AppShutdown(a) == [a EXCEPT !.shutdown = @ + 1]

\* line 328: app.cleanup() is called
AppCleanup(a) == [a EXCEPT !.cleanup = @ + 1]

\* stop that closes the server without looking whether there is one
StopFirstUnguarded(srv) == "wait_closed"

\* lines 322-325: `if self.server:` decides where stop suspends first
StopFirst(srv) == IF srv # None THEN "wait_closed" ELSE "app_shutdown"

\* stop that goes from app.shutdown() straight on to app.cleanup()
StopAfterShutdownNoWait(h) == "app_cleanup"

\* lines 326-328: `if self._handler:` decides what follows app.shutdown()
StopAfterShutdown(h) == IF h # None THEN "handler_shutdown" ELSE "app_cleanup"

\* a shutdown of the request handler that lets its handlers run on
HandlersLeftRunning(n) == n

\* line 327: the handlers in flight once self._handler.shutdown(10) has
\* returned; those its grace period did not see the end of were cancelled
HandlersLeft(n) == 0

\* lines 322-325: the server, if any, is closed and wait_closed awaited;
\* app.shutdown() is awaited otherwise
StopClose ==
    /\ ~calling
    /\ pc_stop = "scheduled"
    /\ LET next == StopFirst(server)
       IN  /\ pc_stop' = next
           /\ IF next = "wait_closed"
              THEN /\ server' = "closed"
                   /\ steps' = steps \o <<"server.close", "server.wait_closed">>
                   /\ UNCHANGED app
              ELSE /\ app' = AppShutdown(app)
                   /\ steps' = Append(steps, "app.shutdown")
                   /\ UNCHANGED server
    /\ UNCHANGED <<conf, hass_state, stop_listener, pc_start, context, handler,
                   routes, failed, inflight, calling, log, last>>

\* lines 324-325: wait_closed() has returned, app.shutdown() is awaited
StopWaitClosed ==
    /\ ~calling
    /\ pc_stop = "wait_closed"
    /\ app' = AppShutdown(app)
    /\ steps' = Append(steps, "app.shutdown")
    /\ pc_stop' = "app_shutdown"
    /\ UNCHANGED <<conf, hass_state, stop_listener, pc_start, context, handler,
                   server, routes, failed, inflight, calling, log, last>>

\* lines 325-328: app.shutdown() has returned; the handler, if any, is shut
\* down with its grace period, and app.cleanup() is awaited otherwise
StopAppShutdown ==
    /\ ~calling
    /\ pc_stop = "app_shutdown"
    /\ LET next == StopAfterShutdown(handler)
       IN  /\ pc_stop' = next
           /\ IF next = "handler_shutdown"
              THEN /\ handler' = "shutdown"
                   /\ steps' = Append(steps, "handler.shutdown")
                   /\ UNCHANGED app
              ELSE /\ app' = AppCleanup(app)
                   /\ steps' = Append(steps, "app.cleanup")
                   /\ UNCHANGED handler
    /\ UNCHANGED <<conf, hass_state, stop_listener, pc_start, context, server,
                   routes, failed, inflight, calling, log, last>>

\* lines 327-328: self._handler.shutdown(10) returns, at once when no
\* handler is in flight and at the latest when the grace period ends, the
\* handlers still in flight being cancelled; app.cleanup() is awaited
StopHandlerShutdown ==
    /\ ~calling
    /\ pc_stop = "handler_shutdown"
    /\ inflight' = HandlersLeft(inflight)
    /\ IF inflight > 0
       THEN /\ last' = [Blank EXCEPT !.op = "cancelled"]
            /\ steps' = steps \o <<"cancelled", "app.cleanup">>
       ELSE /\ steps' = Append(steps, "app.cleanup")
            /\ UNCHANGED last
    /\ app' = AppCleanup(app)
    /\ pc_stop' = "app_cleanup"
    /\ UNCHANGED <<conf, hass_state, stop_listener, pc_start, context, handler,
                   server, routes, failed, calling, log>>

\* line 328: app.cleanup() returns, and stop with it
StopCleanup ==
    /\ ~calling
    /\ pc_stop = "app_cleanup"
    /\ pc_stop' = "done"
    /\ UNCHANGED <<conf, hass_state, stop_listener, pc_start, steps, context, app,
                   handler, server, routes, failed, inflight, calling, log, last>>

-----------------------------------------------------------------------------
(* Specifications.                                                         *)

InitWith(configs) ==
    /\ conf \in configs
    /\ hass_state = "not_running"
    /\ stop_listener = FALSE
    /\ pc_start = "idle"
    /\ pc_stop = "idle"
    /\ steps = <<>>
    /\ context = None
    /\ app = HttpInit(conf)
    /\ handler = None
    /\ server = None
    /\ routes = {}
    /\ failed = [a \in Addrs |-> 0]
    /\ inflight = 0
    /\ calling = FALSE
    /\ log = {}
    /\ last = Blank

\* start, from the start event to its return
Boot ==
    \/ HassStart
    \/ StartServer
    \/ StartLoad
    \/ StartBind

\* stop, from the stop event to its return
Halt ==
    \/ HassStop
    \/ StopClose
    \/ StopWaitClosed
    \/ StopAppShutdown
    \/ StopHandlerShutdown
    \/ StopCleanup

Registration ==
    \/ RegisterView(Views)
    \/ RegisterRedirect
    \/ RegisterStaticPath

\* the values the views return in Spec: one of each shape
ViewResults ==
    { PyNone, PyStr(<<233>>), PyResponse(404, <<>>, "application/octet-stream"),
      PyTuple(<<PyBytes(<<104, 105>>), PyInt(201)>>), PyInt(7) }

\* Spec: the whole server, under one authentication set-up, with and
\* without a certificate
ServerConfigs ==
    { c \in Configs :
        /\ c.api_password = "secret"
        /\ c.trusted_networks = {"lan"}
        /\ ~c.use_x_forwarded_for
        /\ ~c.is_ban_enabled
        /\ c.login_threshold = NO_LOGIN_ATTEMPT_THRESHOLD }

Init == InitWith(ServerConfigs)

Next ==
    \/ Boot
    \/ Halt
    \/ Registration
    \/ Dispatch
    \/ Return(ViewResults)
    \/ Resume(ViewResults)

Spec == Init /\ [][Next]_vars

\* SpecHandle: one configuration, a coroutine view and a callback view, and
\* handlers that return every value of HandlerResults
HandleConfigs == { c \in ServerConfigs : c.ssl_certificate = None }

HandleViews == { v \in Views : v.id \in {"api", "open"} }

InitHandle == InitWith(HandleConfigs)

NextHandle ==
    \/ Boot
    \/ RegisterView(HandleViews)
    \/ Dispatch
    \/ Return(HandlerResults)
    \/ Resume(HandlerResults)

SpecHandle == InitHandle /\ [][NextHandle]_vars

\* SpecAuth: every authentication and ban set-up, one view that requires
\* auth, the server started and stopped
AuthConfigs == { c \in Configs : c.ssl_certificate = None }

AuthViews == { v \in Views : v.id = "api" }

InitAuth == InitWith(AuthConfigs)

NextAuth ==
    \/ Boot
    \/ Halt
    \/ RegisterView(AuthViews)
    \/ Dispatch
    \/ Resume({PyNone})

SpecAuth == InitAuth /\ [][NextAuth]_vars

\* SpecStop: start and stop with requests in flight, on an event loop that
\* runs every step of stop() that is ready to run: the awaited calls of
\* stop() return, and the handler's shutdown returns when its grace period
\* ends at the latest
StopViews == { v \in Views : v.id = "api" }

NextStop ==
    \/ Boot
    \/ Halt
    \/ RegisterView(StopViews)
    \/ Dispatch
    \/ Resume({PyNone})

StopFairness ==
    /\ WF_vars(StopClose)
    /\ WF_vars(StopWaitClosed)
    /\ WF_vars(StopAppShutdown)
    /\ WF_vars(StopHandlerShutdown)
    /\ WF_vars(StopCleanup)

SpecStop == Init /\ [][NextStop]_vars /\ StopFairness

-----------------------------------------------------------------------------
(* Properties of the dispatcher's gate.                                    *)

ReachedHandle == last.op = "request" /\ last.kind = "view" /\ last.outcome # "403"

\* C3: a request that reaches handle while the host is not running is
\* answered 503 and its handler is not called, whatever the view requires
\* and whether or not the request is authenticated.
NotRunningGives503 ==
    (ReachedHandle /\ ~last.running) => (last.outcome = "503" /\ last.calls = 0)

\* an unauthenticated request to a view that requires auth got 503
NotRunningUnauthenticatedSeen ==
    /\ ReachedHandle
    /\ ~last.running
    /\ last.requires_auth
    /\ last.mark = "false"
    /\ last.outcome = "503"

\* C4: the handler is called only when the host is running and the view
\* does not require auth or the request is marked authenticated; a request
\* without the mark to a view that requires auth gets 401 and no call; the
\* handler is called at most once for a request.
AuthorizationGate ==
    /\ last.op = "request" =>
        /\ last.calls = (IF last.outcome = "call" THEN 1 ELSE 0)
        /\ last.outcome = "call" =>
            /\ last.kind = "view"
            /\ last.running
            /\ (~last.requires_auth \/ last.mark = "true")
        /\ (ReachedHandle /\ last.running /\ last.requires_auth
                /\ last.mark # "true") => last.outcome = "401"
    /\ last.op = "complete" => last.calls = 1

\* a running host refused an unauthenticated request to a view requiring auth
UnauthorizedSeen ==
    /\ ReachedHandle
    /\ last.running
    /\ last.requires_auth
    /\ last.mark = "false"
    /\ last.outcome = "401"
    /\ last.calls = 0

-----------------------------------------------------------------------------
(* Properties of start().                                                  *)

RegisterOps == {"register_view", "register_redirect", "register_static_path"}

\* C9 as stated: once start() has bound the socket and returned, no
\* registration changes the routing table any more.
StartFreezesRoutes ==
    [][(pc_start = "done" /\ server # None) => routes' = routes]_vars

\* C9, amended: start() marks the application frozen only while it makes the
\* handler and binds the socket; when it has returned the application and
\* its router are not frozen, and no registration is ever refused for a
\* frozen router.
StartLeavesUnfrozen ==
    /\ pc_start = "done" => (~app.frozen /\ ~app.router_frozen)
    /\ last.op \in RegisterOps => last.outcome # "RuntimeError"
    /\ app.frozen => pc_start = "create_server"

\* a view was registered, and its routes added, after start() had bound the
\* socket and returned
RegisteredAfterStart ==
    /\ pc_start = "done"
    /\ server = "listening"
    /\ last.op = "register_view"
    /\ last.start_done
    /\ last.added > 0

\* C10: when loading the certificate fails, start() returns at once: no
\* request handler, no server, no frozen mark, no prepared middlewares, no
\* attempt to bind, and start() is over for good.
CertFailureAborts ==
    ("Could not read SSL certificate" \in log) =>
        /\ conf.ssl_certificate # None
        /\ pc_start = "done"
        /\ handler = None
        /\ server = None
        /\ context = None
        /\ ~app.frozen /\ ~app.prepared /\ ~app.router_frozen
        /\ app.startup = 1
        /\ "Failed to create HTTP server" \notin log

\* the certificate failed to load, and stop() has run to its end since
CertFailureSeen ==
    /\ "Could not read SSL certificate" \in log
    /\ pc_stop = "done"

-----------------------------------------------------------------------------
(* Properties of the coercion of a handler's return value.                 *)

\* strict UTF-8 decoding; <<-1>> for what is not UTF-8
RECURSIVE Utf8Decode(_)
Utf8Decode(b) ==
    IF b = <<>> THEN <<>>
    ELSE LET n == Len(b)
             Cont(i) == i <= n /\ b[i] >= 128 /\ b[i] < 192
             Rest(k) == Utf8Decode(SubSeq(b, k + 1, n))
             Then(c, k) == IF Rest(k) = <<-1>> THEN <<-1>> ELSE <<c>> \o Rest(k)
         IN  IF b[1] < 128 THEN Then(b[1], 1)
             ELSE IF b[1] >= 194 /\ b[1] < 224 /\ Cont(2)
                 THEN Then((b[1] - 192) * 64 + (b[2] - 128), 2)
             ELSE IF b[1] >= 224 /\ b[1] < 240 /\ Cont(2) /\ Cont(3)
                 THEN Then((b[1] - 224) * 4096 + (b[2] - 128) * 64 + (b[3] - 128), 3)
             ELSE IF b[1] >= 240 /\ b[1] < 245 /\ Cont(2) /\ Cont(3) /\ Cont(4)
                 THEN Then((b[1] - 240) * 262144 + (b[2] - 128) * 4096
                           + (b[3] - 128) * 64 + (b[4] - 128), 4)
             ELSE <<-1>>

IsBody(v) == v.type \in {"str", "NoneType", "bytes"}

HasLoneSurrogate(v) ==
    v.type = "str" /\ \E i \in 1..Len(v.chars) : IsSurrogate(v.chars[i])

\* octets is the body the value v stands for
BodyOf(v, octets) ==
    IF v.type = "str" THEN Utf8Decode(octets) = v.chars
    ELSE IF v.type = "NoneType" THEN octets = <<>>
    ELSE octets = v.octets

Completed == last.op = "complete"

\* C5 as stated: a handler that returns a bare body (a string, None or
\* bytes) is answered with status 200 and that body, a string in UTF-8.
BareBodyGives200 ==
    (Completed /\ IsBody(last.result)) =>
        /\ last.outcome = "response"
        /\ last.response.status = 200
        /\ BodyOf(last.result, last.response.body)

\* C5, amended: the same for every bare body but a string that holds a lone
\* surrogate code point, which UTF-8 cannot encode: encode raises
\* UnicodeEncodeError and no response is produced.
BareBodyCoercion ==
    (Completed /\ IsBody(last.result)) =>
        IF HasLoneSurrogate(last.result)
        THEN last.outcome = "UnicodeEncodeError" /\ last.response = NoValue
        ELSE /\ last.outcome = "response"
             /\ last.response.status = 200
             /\ BodyOf(last.result, last.response.body)

\* a callback returned the euro sign and was answered with its three bytes
EuroSignEncoded ==
    /\ Completed
    /\ last.kind = "callback"
    /\ last.result = PyStr(<<8364>>)
    /\ last.outcome = "response"
    /\ last.response.status = 200
    /\ last.response.body = <<226, 130, 172>>

IsPair(v) == v.type = "tuple" /\ Len(v.items) = 2

\* C6: for a (body, status) pair the response carries that status and the
\* coerced body, and a pair whose body is None or bytes is always answered;
\* 200 is the status of a pair only when the pair says so.
PairStatusKept ==
    (Completed /\ IsPair(last.result)) =>
        /\ last.outcome = "response" =>
            /\ IsBody(last.result.items[1])
            /\ last.response.status = last.result.items[2].int
            /\ BodyOf(last.result.items[1], last.response.body)
        /\ (IsBody(last.result.items[1]) /\ ~HasLoneSurrogate(last.result.items[1]))
            => last.outcome = "response"

\* a coroutine returned (string, 404) and was answered 404 with the string
PairWith404Seen ==
    /\ Completed
    /\ last.kind = "coroutine"
    /\ last.result = PyTuple(<<PyStr(<<233>>), PyInt(404)>>)
    /\ last.response.status = 404
    /\ last.response.body = <<195, 169>>

\* C7: a ready-made response is returned as it is.
ResponsePassedThrough ==
    (Completed /\ last.result.type = "Response") =>
        (last.outcome = "response" /\ last.response = last.result)

\* a JSON response went through with its content type
JsonResponseSeen ==
    /\ Completed
    /\ last.result.type = "Response"
    /\ last.result.ctype = "application/json"
    /\ last.response = last.result

\* the return values C8 calls conforming
Conforming(v) ==
    \/ v.type = "Response"
    \/ IsBody(v)
    \/ IsPair(v) /\ IsBody(v.items[1])

\* C8 as stated: every other return value ends in a failed assertion.
NonConformingAsserts ==
    (Completed /\ ~Conforming(last.result)) =>
        (last.outcome = "AssertionError" /\ last.response = NoValue)

\* C8, amended: every other return value ends in an exception and no
\* response: the ValueError of the unpacking for a tuple that is not a
\* pair, the failed assertion for everything else.
NonConformingRaises ==
    (Completed /\ ~Conforming(last.result)) =>
        /\ last.response = NoValue
        /\ last.outcome = IF last.result.type = "tuple" /\ ~IsPair(last.result)
                          THEN "ValueError" ELSE "AssertionError"

\* a pair whose body is a response failed the assertion
PairOfResponseAsserted ==
    /\ Completed
    /\ IsPair(last.result)
    /\ last.result.items[1].type = "Response"
    /\ last.outcome = "AssertionError"

-----------------------------------------------------------------------------
(* Properties of the ban tracker and the authenticator.                    *)

Requested == last.op = "request"

FiniteThreshold ==
    conf.is_ban_enabled /\ conf.login_threshold # NO_LOGIN_ATTEMPT_THRESHOLD

\* C1: with ban tracking on and a finite threshold, a request from an
\* address whose failed-attempt count has reached the threshold is rejected
\* before it is authenticated and before any handler is called, whatever
\* credential it presents; and a count never goes down, so the block stands.
BanLockoutStanding ==
    /\ [](Requested /\ FiniteThreshold /\ last.count >= conf.login_threshold
            => (last.outcome = "403" /\ last.calls = 0 /\ last.mark = "absent"))
    /\ [][\A a \in Addrs : failed'[a] >= failed[a]]_vars

\* a request with the right credential was rejected for its address's count
BannedWithRightCredential ==
    /\ Requested
    /\ FiniteThreshold
    /\ last.count >= conf.login_threshold
    /\ conf.api_password # None
    /\ last.cred = conf.api_password
    /\ last.outcome = "403"

\* C2: a request that gets to the authenticator is marked authenticated
\* exactly when its address is in a trusted network, or no credential is
\* configured, or it presents the configured credential; a request from a
\* trusted network, and any request when no credential is configured, always
\* gets there.
AuthenticationPolicy ==
    Requested =>
        /\ last.outcome # "403" =>
            (last.mark = "true" <=>
                \/ last.real_ip \in conf.trusted_networks
                \/ conf.api_password = None
                \/ last.cred = conf.api_password)
        /\ last.real_ip \in conf.trusted_networks => last.mark = "true"
        /\ conf.api_password = None => last.mark = "true"

\* a request from a trusted network with a wrong credential was authenticated
TrustedWithWrongCredential ==
    /\ Requested
    /\ conf.api_password # None
    /\ last.real_ip \in conf.trusted_networks
    /\ last.cred = "wrong"
    /\ last.mark = "true"
    /\ last.outcome = "call"

-----------------------------------------------------------------------------
(* Properties of start() when the socket cannot be bound.                  *)

BindFailed == "Failed to create HTTP server" \in log

\* C11: when binding the listening socket fails, start() is over without a
\* further step and leaves nothing of a server behind: no server, no request
\* handler, no prepared middlewares, no frozen mark.
BindFailureAborts ==
    BindFailed =>
        /\ pc_start = "done"
        /\ server = None
        /\ handler = None
        /\ ~app.prepared
        /\ ~app.frozen

\* the bind failed, and start() went on: the request handler of line 306
\* stays and the middlewares were prepared at line 316
BindFailureLeftovers ==
    /\ BindFailed
    /\ pc_start = "done"
    /\ server = None
    /\ handler = "serving"
    /\ app.prepared

-----------------------------------------------------------------------------
(* Properties of stop().                                                   *)

\* the positions of a call in what stop() has done so far
StepAt(name) == { i \in 1..Len(steps) : steps[i] = name }

Called(name) == StepAt(name) # {}

Before(a, b) == \A i \in StepAt(a), j \in StepAt(b) : i < j

StopCalls ==
    {"server.close", "server.wait_closed", "app.shutdown", "handler.shutdown",
     "app.cleanup"}

\* C12: in every execution of stop() the socket, if there is one, is closed
\* first and its close awaited, then the handlers in flight are waited for
\* within the grace period, and app.cleanup(), which releases the
\* application's resources, comes after both and is the last step.
ShutdownOrdering ==
    /\ [](/\ \A i \in StepAt("server.close") : i = 1
          /\ \A i \in StepAt("server.wait_closed") : i = 2 /\ Called("server.close")
          /\ Before("server.wait_closed", "handler.shutdown")
          /\ Before("handler.shutdown", "app.cleanup")
          /\ \A i \in StepAt("app.cleanup") : i = Len(steps)
          /\ \A c \in StopCalls : Cardinality(StepAt(c)) <= 1
          /\ pc_stop = "done" => Called("app.cleanup"))
    /\ [][/\ (steps = <<>> /\ steps' # <<>> /\ server # None)
                => (steps'[1] = "server.close" /\ server' = "closed")
          /\ (app'.cleanup # app.cleanup /\ handler # None)
                => Called("handler.shutdown")]_vars

\* stop() ran to its end on a listening server: all five calls, in order
FullShutdownSeen ==
    /\ pc_stop = "done"
    /\ server = "closed"
    /\ steps = <<"server.close", "server.wait_closed", "app.shutdown",
                 "handler.shutdown", "app.cleanup">>

\* C13 as stated: a handler in flight when stop() is called always runs to
\* completion, so none is cancelled, and the resources are released after it.
InflightRunsToCompletion ==
    /\ ~Called("cancelled")
    /\ Called("app.cleanup") => inflight = 0

\* C13, amended: a handler in flight when stop() is called either completes
\* and is answered before the handler's shutdown returns, or is cancelled
\* when the grace period ends; app.cleanup() is called only once no handler
\* is in flight; and stop(), once scheduled, runs to its end.
GracePeriodDrain ==
    /\ [][inflight' < inflight =>
            \/ last'.op = "complete" /\ last'.outcome = "response"
            \/ /\ last'.op = "cancelled"
               /\ pc_stop = "handler_shutdown"
               /\ pc_stop' = "app_cleanup"]_vars
    /\ [](Called("app.cleanup") => inflight = 0)
    /\ [](Before("complete", "app.cleanup") /\ Before("cancelled", "app.cleanup"))
    /\ (pc_stop = "scheduled" ~> pc_stop = "done")

\* a handler in flight when stop() began completed within the grace period
CompletedInGracePeriod ==
    /\ pc_stop = "done"
    /\ last.op = "complete"
    /\ steps = <<"server.close", "server.wait_closed", "app.shutdown",
                 "handler.shutdown", "complete", "app.cleanup">>

-----------------------------------------------------------------------------
(* Properties of the request pipeline.                                     *)

\* the positions of a stage among those the latest request went through
StageAt(name) == { i \in 1..Len(last.trace) : last.trace[i] = name }

StageBefore(a, b) == \A i \in StageAt(a), j \in StageAt(b) : i < j

\* C14: every request goes through real-IP resolution, then the ban check
\* (when installed), then authentication, then handle; the ban check looks at
\* the resolved address, and a request from a banned address is rejected
\* with no credential evaluated and no handler reached.
PipelineOrder ==
    Requested =>
        /\ StageAt("real_ip") # {}
        /\ conf.is_ban_enabled <=> StageAt("ban") # {}
        /\ StageBefore("real_ip", "ban")
        /\ StageBefore("real_ip", "auth")
        /\ StageBefore("ban", "auth")
        /\ StageBefore("auth", "handle")
        /\ (FiniteThreshold /\ last.count >= conf.login_threshold)
            <=> last.outcome = "403"
        /\ last.outcome = "403" =>
            /\ StageAt("auth") = {}
            /\ StageAt("handle") = {}
            /\ last.mark = "absent"
            /\ last.calls = 0
        /\ last.outcome # "403" =>
            (StageAt("auth") # {} /\ last.mark # "absent")

\* a request with the right credential, its address taken from
\* X-Forwarded-For, got as far as the ban check and no further
StoppedAtBanCheck ==
    /\ Requested
    /\ conf.use_x_forwarded_for
    /\ conf.api_password # None
    /\ last.cred = conf.api_password
    /\ last.trace = <<"staticresource", "real_ip", "ban">>
    /\ last.outcome = "403"

-----------------------------------------------------------------------------
(* Properties of the ban tracker's configuration.                          *)

UnlimitedThreshold ==
    conf.is_ban_enabled /\ conf.login_threshold = NO_LOGIN_ATTEMPT_THRESHOLD

\* C15: with the threshold -1 no request is ever rejected for a ban, however
\* many attempts its address has failed, and every failed attempt still adds
\* one to the count of its address (and a successful one adds nothing).
UnlimitedStillCounts ==
    (Requested /\ UnlimitedThreshold) =>
        /\ last.outcome # "403"
        /\ last.mark \in {"true", "false"}
        /\ last.mark = "false" => failed[last.real_ip] = last.count + 1
        /\ last.mark = "true" => failed[last.real_ip] = last.count

\* an address that had already failed more often than any finite threshold
\* tried failed once more, was counted once more and was not locked out
FailedBeyondEveryThreshold ==
    /\ Requested
    /\ UnlimitedThreshold
    /\ last.count >= MaxThreshold
    /\ last.mark = "false"
    /\ last.outcome = "401"
    /\ failed[last.real_ip] = last.count + 1

\* C16: with ban tracking turned off the ban tracker is not installed: no
\* request is rejected for a ban, no failed attempt is counted, whatever
\* threshold is configured, and requests are authenticated and dispatched
\* as they are otherwise.
BanDisabledNoTracker ==
    ~conf.is_ban_enabled =>
        /\ ~HasMiddleware(app, "ban")
        /\ \A a \in Addrs : failed[a] = 0
        /\ Requested =>
            /\ StageAt("ban") = {}
            /\ last.trace[Len(last.trace)] = "handle"
            /\ last.mark = "true" <=>
                \/ last.real_ip \in conf.trusted_networks
                \/ conf.api_password = None
                \/ last.cred = conf.api_password
            /\ last.outcome = IF ~last.running THEN "503"
                              ELSE IF last.mark = "true" THEN "call" ELSE "401"

\* with ban tracking off and a threshold of one configured, a request with a
\* wrong credential was refused by handle and left no count behind
UncountedFailure ==
    /\ ~conf.is_ban_enabled
    /\ conf.login_threshold = 1
    /\ Requested
    /\ last.cred = "wrong"
    /\ last.mark = "false"
    /\ last.outcome = "401"
    /\ failed[last.real_ip] = 0

-----------------------------------------------------------------------------
(* Properties of registration.                                             *)

RoutesOf(id) == { r \in routes : r.view = id }

NeverRegisteredFrozen ==
    last.op = "register_view" => ~last.frozen

\* C18, amended: register_view finds the application marked frozen exactly
\* when it runs while start() is suspended in create_server (between lines
\* 304 and 317); before start(), and after it has returned with or without
\* a bound socket, the mark is clear; and in all of these the registration
\* is accepted, the router itself never being frozen.
RegisteredFrozenOnlyWhileBinding ==
    last.op = "register_view" =>
        /\ last.frozen <=> last.binding
        /\ last.start_done => ~last.frozen
        /\ last.outcome # "RuntimeError"
        /\ (ViewById(last.view).has_name /\ ViewById(last.view).url # None)
            => (last.outcome = "ok" /\ last.added > 0)

\* a view was registered, and its routes added, while start() was suspended
\* in create_server with the application marked frozen
RegisteredWhileBinding ==
    /\ last.op = "register_view"
    /\ last.binding
    /\ last.frozen
    /\ last.outcome = "ok"
    /\ last.added > 0

-----------------------------------------------------------------------------
(* Properties of start() and stop() together.                              *)

CertFailed == "Could not read SSL certificate" \in log

\* C19: stop() runs only once start() has been begun, each of them at most
\* once, and in every interleaving of the two nothing listens any more once
\* both have finished.
StoppedAfterStartAndStop ==
    /\ pc_stop # "idle" => pc_start \notin {"idle", "scheduled"}
    /\ stop_listener => pc_start \notin {"idle", "scheduled"}
    /\ app.startup <= 1
    /\ app.shutdown <= 1
    /\ (pc_start = "done" /\ pc_stop = "done") => server # "listening"

\* stop() ran to its end while start() was suspended before the bind, found
\* no server to close, and start() then bound the socket: both have
\* finished and the socket listens
SocketLeftListening ==
    /\ pc_start = "done"
    /\ pc_stop = "done"
    /\ ~Called("server.close")
    /\ server = "listening"

\* C20: stop() after each outcome of start() runs to its end; it closes the
\* socket only if start() bound one and shuts the request handler down only
\* if start() made one, which after a start() that has returned means: the
\* socket unless start() logged a failure, the handler unless the
\* certificate failed; and it calls app.shutdown() and then app.cleanup()
\* once each.
StopSafeAfterStart ==
    /\ [](/\ Called("server.close") => (server = "closed" /\ ~CertFailed /\ ~BindFailed)
          /\ Called("handler.shutdown") => (handler = "shutdown" /\ ~CertFailed)
          /\ app.shutdown <= 1 /\ app.cleanup <= 1
          /\ Before("app.shutdown", "app.cleanup")
          /\ pc_stop = "done" =>
                /\ app.shutdown = 1 /\ Cardinality(StepAt("app.shutdown")) = 1
                /\ app.cleanup = 1 /\ Cardinality(StepAt("app.cleanup")) = 1)
    /\ [][/\ (pc_start = "done" /\ pc_stop = "scheduled" /\ pc_stop' # pc_stop)
                => (Called("server.close")' <=> (~CertFailed /\ ~BindFailed))
          /\ (pc_start = "done" /\ pc_stop = "app_shutdown" /\ pc_stop' # pc_stop)
                => (Called("handler.shutdown")' <=> ~CertFailed)]_vars
    /\ (pc_stop = "scheduled" ~> pc_stop = "done")

\* stop() ran to its end after a failed bind: nothing to close, the handler
\* of line 306 shut down, app.shutdown() and app.cleanup() once each
StoppedAfterBindFailure ==
    /\ BindFailed
    /\ pc_stop = "done"
    /\ server = None
    /\ steps = <<"app.shutdown", "handler.shutdown", "app.cleanup">>
    /\ app.shutdown = 1
    /\ app.cleanup = 1

====
